---- MODULE Spec2Model ----
(***************************************************************************)
(* Dynamic tool-set synchronisation of the Decision Intelligence MCP       *)
(* server (src/src/mcp-server.ts, src/src/ditool.ts and the runtime client *)
(* of src/unnamed/part_001).                                               *)
(*                                                                         *)
(* Strings that the code concatenates or rewrites (display names, service  *)
(* ids, operation ids, tool names) are sequences of one-character strings, *)
(* so that replaceAll and + are computed and not assumed.                  *)
(*                                                                         *)
(* One deployment space is configured.  Except in SpecConfigured no        *)
(* decision-service id is configured, so every snapshot enumerates the     *)
(* space.  A decision service publishes one operation, except in           *)
(* SpecPasses, SpecConfigured and SpecFunctions, where a descriptor may    *)
(* declare further paths.  The descriptor fetch of a service and the       *)
(* per-operation metadata lookup that follows it are one read of the       *)
(* remote state.                                                           *)
(*                                                                         *)
(* Specifications:                                                         *)
(*   Spec          the server against a remote runtime that changes        *)
(*   SpecServing   the server executing tools, the remote runtime fixed,   *)
(*                 scope enumeration and metadata lookup may fail          *)
(*   SpecLive      fair timer ticks and remote answers, the remote runtime *)
(*                 changes and then settles                                *)
(*   SpecPasses    startup and polling alone, the remote runtime changes   *)
(*                 and may publish a service whose names conflict          *)
(*   SpecPassesLive  SpecPasses with fair timer ticks and remote answers   *)
(*   SpecServers   SpecPasses with a second server in the same process     *)
(*   SpecShutdown  SpecPasses with a server that is closed at some point   *)
(*   SpecConfigured  the server with configured decision-service ids       *)
(*   SpecFunctions applications of getToolName, generateToolName,          *)
(*                 processOpenAPIPaths and validatePollInterval            *)
(***************************************************************************)
EXTENDS Integers, Sequences, FiniteSets, TLC

\* ----------------------------------------------------------------------
\* Bounds of the remote runtime that is explored
\* ----------------------------------------------------------------------

\* number of distinct input schemas an operation may publish
NumSchemas == 2

\* number of distinct title/description texts an operation may publish
NumTitles == 2

ServiceIds == << <<"1">>, <<"2">> >>

Services == {ServiceIds[i] : i \in DOMAIN ServiceIds}

\* the display name the services publish; two deployed services share it
DisplayNames == { <<"D", " ", "/", "S">> }

OperationId == <<"o">>

\* the empty value stands for "no mcpToolName.<operationId> entry" (an empty
\* value is falsy in getToolName and counts as absent as well)
NoOverride == <<>>

Overrides == { NoOverride, <<"X">> }

Schemas == 1..NumSchemas

Titles == 1..NumTitles

\* what the runtime answers for one decision service:
\*   absent   - not deployed: not enumerated, and its descriptor fetch fails
\*   ok       - deployed, the descriptor is served
\*   throw    - deployed, the descriptor fetch fails with a transport error
\*   incident - deployed, the fetch answers 200 with an incident payload
Statuses == {"absent", "ok", "throw", "incident"}

NoDescriptor ==
    [name |-> <<>>, hash |-> 0, title |-> 0, override |-> NoOverride, extra |-> <<>>]

\* the descriptor every variation starts from.  A descriptor declares the
\* path of operation OperationId, whose schema, title and override name are
\* hash, title and override, and then the paths of extra
BaseDescriptor ==
    [name |-> <<"D", " ", "/", "S">>, hash |-> 1, title |-> 1,
     override |-> NoOverride, extra |-> <<>>]

differences(d) ==
    (IF d.name # BaseDescriptor.name THEN 1 ELSE 0)
        + (IF d.hash # BaseDescriptor.hash THEN 1 ELSE 0)
        + (IF d.title # BaseDescriptor.title THEN 1 ELSE 0)
        + (IF d.override # BaseDescriptor.override THEN 1 ELSE 0)

\* the descriptors explored: the base one and those that differ from it in
\* one attribute (display name, input schema, title, override name)
Descriptors ==
    {d \in [name : DisplayNames, hash : Schemas, title : Titles,
             override : Overrides, extra : {<<>>}] :
        differences(d) <= 1}

RemoteService ==
    {[status |-> "ok", desc |-> d] : d \in Descriptors}
        \cup {[status |-> s, desc |-> NoDescriptor] : s \in Statuses \ {"ok"}}

\* ----------------------------------------------------------------------
\* Tool Name Allocator (src/src/ditool.ts)
\* ----------------------------------------------------------------------

replaceAll(s, c, r) == [i \in 1..Len(s) |-> IF s[i] = c THEN r ELSE s[i]]

includes(seq, x) == \E i \in DOMAIN seq : seq[i] = x

\* the substitution applied to both the default and the fallback name
sanitize(s) == replaceAll(replaceAll(s, " ", "_"), "/", "_")

\* a variant that always hands out the default name
generateToolName_NoFallback(operationId, decisionServiceName, decisionServiceId, toolNames) ==
    [ok |-> TRUE, name |-> sanitize(decisionServiceName \o <<" ">> \o operationId)]

\* result: ok = FALSE stands for the thrown naming conflict "Tool name <name> already exist"
generateToolName(operationId, decisionServiceName, decisionServiceId, toolNames) ==
    LET default == sanitize(decisionServiceName \o <<" ">> \o operationId)
        fallback == sanitize(decisionServiceId \o <<" ">> \o operationId)
    IN  IF includes(toolNames, default)
        THEN IF includes(toolNames, fallback)
             THEN [ok |-> FALSE, name |-> fallback]
             ELSE [ok |-> TRUE, name |-> fallback]
        ELSE [ok |-> TRUE, name |-> default]

\* a variant that applies the substitution of the default names to the
\* override value
getToolName_Sanitized(desc, operationId, decisionServiceId, toolNames) ==
    IF desc.override # NoOverride
    THEN [ok |-> TRUE, name |-> sanitize(desc.override)]
    ELSE generateToolName(operationId, desc.name, decisionServiceId, toolNames)

\* metadata.map[metadataName]?.value || generateToolName(...): desc.override
\* is the value, NoOverride when it is undefined or empty
getToolName(desc, operationId, decisionServiceId, toolNames) ==
    IF desc.override # NoOverride
    THEN [ok |-> TRUE, name |-> desc.override]
    ELSE generateToolName(operationId, desc.name, decisionServiceId, toolNames)

\* ----------------------------------------------------------------------
\* Descriptor translation (src/src/mcp-server.ts)
\* ----------------------------------------------------------------------

\* hashInputSchema is JSON.stringify of the schema: equal schemas, and only
\* they, have equal hashes
hashInputSchema(schema) == schema

\* what a declared path looks like:
\*   ok            - a post operation with an operationId and a request body
\*                   whose content has an application/json entry
\*   noPost        - no post operation
\*   noOperationId - a post operation without operationId
\*   noBody        - a post operation without requestBody
\*   noJson        - a request body whose content has no application/json entry
PathKinds == {"ok", "noPost", "noOperationId", "noBody", "noJson"}

path(kind, operationId, schema, title) ==
    [kind |-> kind, operationId |-> operationId, schema |-> schema, title |-> title]

\* openapi.paths, in the order of the for-in loop
paths(desc) == <<path("ok", OperationId, desc.hash, desc.title)>> \o desc.extra

\* the metadata map holds the entry "mcpToolName." + operationId of one
\* operation: desc.override is the entry of OperationId
metadataOf(desc, operationId) ==
    IF operationId = OperationId THEN desc ELSE [desc EXCEPT !.override = NoOverride]

\* getToolDefinition: null without a post operation or a request body; it
\* reads .schema of content["application/json"], which throws a TypeError
\* when the content has no such entry
getToolDefinition(p) ==
    IF p.kind \in {"noPost", "noBody"} THEN [thrown |-> "none", null |-> TRUE]
    ELSE IF p.kind = "noJson" THEN [thrown |-> "type", null |-> FALSE]
    ELSE [thrown |-> "none", null |-> FALSE]

RECURSIVE processPaths(_, _, _, _, _)
processPaths(desc, serviceId, ps, toolNames, toolMetadata) ==
    IF ps = <<>>
    THEN [ok |-> TRUE, thrown |-> "none", tools |-> toolMetadata, toolNames |-> toolNames]
    ELSE LET p == Head(ps)
         IN  IF p.kind \in {"noPost", "noOperationId"} \/ getToolDefinition(p).null
             THEN processPaths(desc, serviceId, Tail(ps), toolNames, toolMetadata)
             ELSE IF getToolDefinition(p).thrown # "none"
             THEN [ok |-> FALSE, thrown |-> getToolDefinition(p).thrown,
                   tools |-> <<>>, toolNames |-> toolNames]
             ELSE LET r == getToolName(metadataOf(desc, p.operationId),
                                       p.operationId, serviceId, toolNames)
                  IN  IF ~r.ok
                      THEN [ok |-> FALSE, thrown |-> "naming",
                            tools |-> <<>>, toolNames |-> toolNames]
                      ELSE processPaths(desc, serviceId, Tail(ps),
                               Append(toolNames, r.name),
                               Append(toolMetadata,
                                   [name |-> r.name, title |-> p.title,
                                    inputSchemaHash |-> hashInputSchema(p.schema),
                                    decisionServiceId |-> serviceId,
                                    operationId |-> p.operationId]))

\* result: the candidates, and the name list as the pushes of the loop left it
\* (also when an exception left the loop); thrown: "naming" for the naming
\* conflict of the allocator, "type" for the TypeError of getToolDefinition
processOpenAPIPaths(desc, serviceId, toolNames) ==
    processPaths(desc, serviceId, paths(desc), toolNames, <<>>)

\* getDecisionServiceOpenAPI rejects on a transport error and throws on an
\* incident payload; the model gives an undeployed service a failing fetch
fetchFails(rs) == rs.status # "ok"

\* getMetadata followed by getDecisionServiceIds: the deployed services, each
\* once, in the order the runtime lists them
RECURSIVE dedup(_, _)
dedup(list, ids) ==
    IF list = <<>> THEN ids
    ELSE dedup(Tail(list), IF includes(ids, Head(list)) THEN ids ELSE Append(ids, Head(list)))

\* a variant that returns the id of every metadata entry
getDecisionServiceIds_NoDedup(metadata) == metadata

getDecisionServiceIds(metadata) == dedup(metadata, <<>>)

getMetadata(rem) == SelectSeq(ServiceIds, LAMBDA s : rem[s].status # "absent")

\* ----------------------------------------------------------------------
\* Live registry and tracked tools (src/src/mcp-server.ts)
\*
\* A registry entry is [handle, name, title, schema, service, operation]:
\* service and operation are what the entry's execution callback is bound to.
\* A tracked definition is a ToolDefinition; its registeredTool is the handle.
\* The operations below work on a record
\*   [reg, defs, conn, err, added, removed, updated, notes, log]
\* reg/defs: the registry and the tracked list; conn: the server is connected;
\* err: an exception is propagating; added/removed/updated: what was done;
\* notes: tool-list-changed notifications sent; log: the calls made on the
\* registry, in order, each with whether the registry was in the state the
\* call needs (registerTool: the name is not registered; update and remove:
\* the entry of the handle is in the registry).
\* ----------------------------------------------------------------------

Min(S) == CHOOSE x \in S : \A y \in S : x <= y

handlesOf(st) == {e.handle : e \in st.reg} \cup {st.defs[i].registeredTool : i \in DOMAIN st.defs}

newHandle(st) == Min((1..(Cardinality(handlesOf(st)) + 1)) \ handlesOf(st))

\* McpServer.sendToolListChanged as the protocol layer calls it after every
\* registerTool, update and remove: it sends only while connected
sendToolListChanged(st) == [st EXCEPT !.notes = IF st.conn THEN @ + 1 ELSE @]

startState(reg, defs, conn) ==
    [reg |-> reg, defs |-> defs, conn |-> conn, err |-> FALSE,
     added |-> 0, removed |-> 0, updated |-> 0, notes |-> 0, log |-> <<>>]

called(st, op, ok) == [st EXCEPT !.log = Append(@, [op |-> op, ok |-> ok])]

hasEntry(st, handle) == \E e \in st.reg : e.handle = handle

hasName(st, name) == \E e \in st.reg : e.name = name

makeEntry(handle, tool) ==
    [handle |-> handle, name |-> tool.name, title |-> tool.title,
     schema |-> tool.inputSchemaHash,
     service |-> tool.decisionServiceId, operation |-> tool.operationId]

\* a variant that does not keep the handle registerTool returned
makeDefinition_NoHandle(handle, tool) ==
    [name |-> tool.name, title |-> tool.title,
     inputSchemaHash |-> tool.inputSchemaHash,
     decisionServiceId |-> tool.decisionServiceId,
     operationId |-> tool.operationId, registeredTool |-> 0]

makeDefinition(handle, tool) ==
    [name |-> tool.name, title |-> tool.title,
     inputSchemaHash |-> tool.inputSchemaHash,
     decisionServiceId |-> tool.decisionServiceId,
     operationId |-> tool.operationId, registeredTool |-> handle]

\* a variant that registers without the registry's duplicate-name check
registerDecisionOperationTool_NoCheck(st, newTool) ==
    LET h == newHandle(st)
    IN  sendToolListChanged(
            [called(st, "add", ~hasName(st, newTool.name))
                EXCEPT !.reg = @ \cup {makeEntry(h, newTool)},
                       !.defs = Append(@, makeDefinition(h, newTool)),
                       !.added = @ + 1])

\* server.registerTool throws "Tool <name> is already registered" when the
\* name is present; otherwise the entry is created and the definition pushed
registerDecisionOperationTool(st, newTool) ==
    IF \E e \in st.reg : e.name = newTool.name
    THEN [called(st, "add", FALSE) EXCEPT !.err = TRUE]
    ELSE LET h == newHandle(st)
         IN  sendToolListChanged(
                 [called(st, "add", TRUE)
                     EXCEPT !.reg = @ \cup {makeEntry(h, newTool)},
                            !.defs = Append(@, makeDefinition(h, newTool)),
                            !.added = @ + 1])

RECURSIVE registerAll(_, _)
registerAll(st, tools) ==
    IF tools = <<>> \/ st.err THEN st
    ELSE registerAll(registerDecisionOperationTool(st, Head(tools)), Tail(tools))

\* a variant that allocates the names of each service from an empty list
registerDecisionServiceTools_FreshNames(st, desc, decisionServiceId, toolNames) ==
    LET r == processOpenAPIPaths(desc, decisionServiceId, <<>>)
    IN  IF ~r.ok
        THEN [st |-> [st EXCEPT !.err = TRUE], toolNames |-> r.toolNames]
        ELSE [st |-> registerAll(st, r.tools), toolNames |-> r.toolNames]

\* result: the state record plus the name list; ok = FALSE: an exception left
\* the function (naming conflict or duplicate registration)
registerDecisionServiceTools(st, desc, decisionServiceId, toolNames) ==
    LET r == processOpenAPIPaths(desc, decisionServiceId, toolNames)
    IN  IF ~r.ok
        THEN [st |-> [st EXCEPT !.err = TRUE], toolNames |-> r.toolNames]
        ELSE [st |-> registerAll(st, r.tools), toolNames |-> r.toolNames]

removeAt(seq, i) == SubSeq(seq, 1, i - 1) \o SubSeq(seq, i + 1, Len(seq))

namesOf(tools) == {tools[i].name : i \in DOMAIN tools}

\* the loop of removeDeletedTools, from index i down to 1
RECURSIVE removeLoop(_, _, _)
removeLoop(st, i, newNames) ==
    IF i = 0 THEN st
    ELSE LET existingTool == st.defs[i]
         IN  IF existingTool.name \notin newNames
             THEN removeLoop(
                      sendToolListChanged(
                          [called(st, "remove", hasEntry(st, existingTool.registeredTool))
                              EXCEPT !.reg = {e \in @ : e.handle # existingTool.registeredTool},
                                     !.defs = removeAt(@, i),
                                     !.removed = @ + 1]),
                      i - 1, newNames)
             ELSE removeLoop(st, i - 1, newNames)

\* a variant that drops the tools from the tracked list and leaves their
\* registry entries
removeDeletedTools_TrackedOnly(st, newNames) ==
    [st EXCEPT !.defs = SelectSeq(@, LAMBDA d : d.name \in newNames)]

removeDeletedTools(st, newNames) == removeLoop(st, Len(st.defs), newNames)

\* a variant that also compares the title
hasSchemaChanged_Title(existingTool, newToolMeta) ==
    existingTool.inputSchemaHash # newToolMeta.inputSchemaHash
        \/ existingTool.title # newToolMeta.title

hasSchemaChanged(existingTool, newToolMeta) ==
    existingTool.inputSchemaHash # newToolMeta.inputSchemaHash

\* a variant that refreshes the stored metadata without calling update
updateExistingTool_StoreOnly(st, i, newToolMeta) ==
    [called(st, "update", hasEntry(st, st.defs[i].registeredTool))
        EXCEPT !.defs[i].title = newToolMeta.title,
               !.defs[i].inputSchemaHash = newToolMeta.inputSchemaHash,
               !.updated = @ + 1]

\* registeredTool.update (title, description, schema, callback) on the entry
\* of the tracked definition at index i, then the stored title and hash; the
\* stored service and operation ids are not touched.  The path of the
\* candidate's operation is always found in the candidate's own descriptor.
updateExistingTool(st, i, newToolMeta) ==
    LET h == st.defs[i].registeredTool
    IN  sendToolListChanged(
            [called(st, "update", hasEntry(st, h))
                EXCEPT !.reg = {IF e.handle = h
                                THEN [e EXCEPT !.title = newToolMeta.title,
                                               !.schema = newToolMeta.inputSchemaHash,
                                               !.service = newToolMeta.decisionServiceId,
                                               !.operation = newToolMeta.operationId]
                                ELSE e : e \in @},
                       !.defs[i].title = newToolMeta.title,
                       !.defs[i].inputSchemaHash = newToolMeta.inputSchemaHash,
                       !.updated = @ + 1])

\* a variant that removes the entry and registers the candidate anew
handleSchemaUpdate_Reregister(st, i, newToolMeta) ==
    registerDecisionOperationTool(
        sendToolListChanged(
            [called(st, "remove", hasEntry(st, st.defs[i].registeredTool))
                EXCEPT !.reg = {e \in @ : e.handle # st.defs[i].registeredTool},
                       !.defs = removeAt(@, i),
                       !.removed = @ + 1]),
        newToolMeta)

\* ToolChangeMonitor.handleSchemaUpdate: updateExistingTool, whose result is
\* logged only
handleSchemaUpdate(st, i, newToolMeta) == updateExistingTool(st, i, newToolMeta)

\* existingToolsMap: name -> the tracked object, built before the removals;
\* the object is identified by its handle, a later entry of the same name wins
maxIndex(defs, name) == CHOOSE i \in DOMAIN defs :
    defs[i].name = name /\ \A j \in DOMAIN defs : defs[j].name = name => j <= i

existingToolsMap(defs) ==
    [n \in namesOf(defs) |-> defs[maxIndex(defs, n)].registeredTool]

indexOfHandle(defs, h) == CHOOSE i \in DOMAIN defs : defs[i].registeredTool = h

RECURSIVE processToolChanges(_, _, _)
processToolChanges(st, newToolMetadata, existingMap) ==
    IF newToolMetadata = <<>> \/ st.err THEN st
    ELSE LET newToolMeta == Head(newToolMetadata)
         IN  IF newToolMeta.name \notin DOMAIN existingMap
             THEN processToolChanges(registerDecisionOperationTool(st, newToolMeta),
                                     Tail(newToolMetadata), existingMap)
             ELSE LET i == indexOfHandle(st.defs, existingMap[newToolMeta.name])
                  IN  IF hasSchemaChanged(st.defs[i], newToolMeta)
                      THEN processToolChanges(handleSchemaUpdate(st, i, newToolMeta),
                                              Tail(newToolMetadata), existingMap)
                      ELSE processToolChanges(st, Tail(newToolMetadata), existingMap)

\* a variant in which the additions and updates are left to a later turn:
\* the turn that ends the pass has applied the removals only
reconcile_RemovalsOnly(st, newToolMetadata) ==
    removeDeletedTools(st, namesOf(newToolMetadata))

\* a variant that processes the additions and updates before the removals
reconcile_RemovalsLast(st, newToolMetadata) ==
    LET existingMap == existingToolsMap(st.defs)
        afterChanges == processToolChanges(st, newToolMetadata, existingMap)
    IN  IF afterChanges.err THEN afterChanges
        ELSE removeDeletedTools(afterChanges, namesOf(newToolMetadata))

\* the part of performToolCheck that follows the snapshot: it runs without
\* suspension
reconcile(st, newToolMetadata) ==
    LET existingMap == existingToolsMap(st.defs)
        afterRemovals == removeDeletedTools(st, namesOf(newToolMetadata))
    IN  processToolChanges(afterRemovals, newToolMetadata, existingMap)

\* ----------------------------------------------------------------------
\* State
\* ----------------------------------------------------------------------

VARIABLES
    remote,          \* the remote runtime: service id -> RemoteService
    startup,         \* createMcpServer: "enumerate", "services", "done", "failed"
    startupIds,      \* createMcpServer: the service ids still to process
    toolNames,       \* createMcpServer: the running name list
    toolDefinitions, \* the tracked tools
    registry,        \* the live registry of the protocol layer
    handlersSet,     \* registerToolHandlers was called
    isPolling,       \* ToolChangeMonitor.isPolling
    passes,          \* the performToolCheck invocations in flight
    timerActive,     \* pollTimer is set and not cleared
    connected,       \* the server is connected to its transport
    closeCalled,     \* server.close was called
    closed,          \* the original close has released the server
    lastEvent,       \* the step taken last
    lastPass,        \* what the pass that ended last did
    quiet,           \* the remote runtime never changes in this behaviour
    stable,          \* when quiet: the passes that have ended (counted up to 2)
    response,        \* the answer to the client request just served
    enumerationFails, \* getMetadata of the deployment space rejects
    probe,           \* the function application just evaluated (function runs only)
    decisionServiceIds, \* configuration.decisionServiceIds; <<>>: none configured
    enumerated,      \* getMetadata has been called
    peer             \* another server of this process: "none", "idle", "inFlight"

vars == <<remote, startup, startupIds, toolNames, toolDefinitions, registry,
          handlersSet, isPolling, passes, timerActive, connected, closeCalled,
          closed, lastEvent, lastPass, quiet, stable, response,
          enumerationFails, probe, decisionServiceIds, enumerated, peer>>

NoResponse == [kind |-> "none"]

NoProbe == [fn |-> "none"]

\* cause: "none", or why the pass threw: "enumerate" (getMetadata), "fetch"
\* (descriptor fetch), "naming" (naming conflict), "type" (TypeError of the
\* descriptor translation), "duplicate" (registration of a registered name);
\* snapshot: the candidates the pass reconciled against; log: the calls the
\* pass made on the registry
NoPass == [added |-> 0, removed |-> 0, updated |-> 0, notes |-> 0,
           cause |-> "none", snapshot |-> <<>>, log |-> <<>>]

\* lastEvent, lastPass and response describe the step just taken and nothing
\* older: a step that ends no pass and serves no request clears them
Note(event, getMetadataCalled) ==
    /\ lastEvent' = event
    /\ lastPass' = NoPass
    /\ response' = NoResponse
    /\ enumerated' = (enumerated \/ getMetadataCalled)
    /\ UNCHANGED <<quiet, enumerationFails, probe, decisionServiceIds, peer>>

Mark(event) == Note(event, FALSE)

\* a variant of createMcpServer that leaves the handlers to the first
\* registration of a tool
registerToolHandlers_Lazy(installed) == installed

\* setToolRequestHandlers: the tools/list and tools/call handlers are
\* installed, whether or not a tool is registered
registerToolHandlers(installed) == TRUE

\* a variant that sets the poll timer before the registration loop
Created_TimerFirst ==
    /\ startup = "enumerate"
    /\ startupIds = <<>>
    /\ toolNames = <<>>
    /\ toolDefinitions = <<>>
    /\ registry = {}
    /\ handlersSet = registerToolHandlers(FALSE)
    /\ isPolling = FALSE
    /\ passes = <<>>
    /\ timerActive = TRUE
    /\ connected = FALSE
    /\ closeCalled = FALSE
    /\ closed = FALSE
    /\ lastEvent = "init"
    /\ lastPass = NoPass
    /\ stable = 0
    /\ response = NoResponse
    /\ probe = NoProbe
    /\ enumerated = FALSE
    /\ peer = "none"

\* the state as createMcpServer has it after registerToolHandlers, before the
\* first remote call, apart from the remote runtime
Created ==
    /\ startup = "enumerate"
    /\ startupIds = <<>>
    /\ toolNames = <<>>
    /\ toolDefinitions = <<>>
    /\ registry = {}
    /\ handlersSet = registerToolHandlers(FALSE)
    /\ isPolling = FALSE
    /\ passes = <<>>
    /\ timerActive = FALSE
    /\ connected = FALSE
    /\ closeCalled = FALSE
    /\ closed = FALSE
    /\ lastEvent = "init"
    /\ lastPass = NoPass
    /\ stable = 0
    /\ response = NoResponse
    /\ probe = NoProbe
    /\ enumerated = FALSE
    /\ peer = "none"

\* the remote runtime is in any state, its enumeration answers
Init ==
    /\ remote \in [Services -> RemoteService]
    /\ quiet \in BOOLEAN
    /\ enumerationFails = FALSE
    /\ decisionServiceIds = <<>>
    /\ Created

\* ----------------------------------------------------------------------
\* createMcpServer
\* ----------------------------------------------------------------------

\* the end of createMcpServer: setInterval, the close override, connect.
\* No timer callback runs before connect has returned.  toolNames is a local
\* of createMcpServer that nothing reads after the loop: it is dropped.
StartupFinish ==
    /\ startup' = "done"
    /\ startupIds' = <<>>
    /\ timerActive' = TRUE
    /\ connected' = TRUE

\* a variant that enumerates the deployment space whatever is configured
usesConfiguredIds_Never(serviceIds) == FALSE

\* the test in front of getMetadata, in createMcpServer and in
\* fetchAllToolMetadata: the configured ids are used when there are any
\* (undefined and the empty list are both <<>>)
usesConfiguredIds(serviceIds) == serviceIds # <<>>

\* the head of the loop over the deployment spaces: the configured service
\* ids, or those getMetadata lists.
\* getMetadata is awaited outside the try of the per-service loop: when it
\* rejects, the exception leaves createMcpServer
StartupEnumerate ==
    /\ startup = "enumerate"
    /\ IF usesConfiguredIds(decisionServiceIds)
       THEN /\ startup' = "services"
            /\ startupIds' = decisionServiceIds
            /\ UNCHANGED <<timerActive, connected>>
       ELSE IF enumerationFails
       THEN /\ startup' = "failed"
            /\ startupIds' = <<>>
            /\ UNCHANGED <<timerActive, connected>>
       ELSE LET ids == getDecisionServiceIds(getMetadata(remote))
            IN  IF ids = <<>>
                THEN StartupFinish
                ELSE /\ startup' = "services"
                     /\ startupIds' = ids
                     /\ UNCHANGED <<timerActive, connected>>
    /\ Note("other", ~usesConfiguredIds(decisionServiceIds))
    /\ UNCHANGED <<remote, toolNames, toolDefinitions, registry, handlersSet,
                   isPolling, passes, closeCalled, closed, stable>>

\* a variant of the loop body without the try/catch
startupService_NoCatch(st, rs, serviceId, names) ==
    IF fetchFails(rs)
    THEN [st |-> [st EXCEPT !.err = TRUE], toolNames |-> names]
    ELSE registerDecisionServiceTools(st, rs.desc, serviceId, names)

\* the body of the per-service loop: the catch logs the error and the loop
\* goes on, so no exception leaves it
startupService(st, rs, serviceId, names) ==
    IF fetchFails(rs)
    THEN [st |-> st, toolNames |-> names]
    ELSE LET r == registerDecisionServiceTools(st, rs.desc, serviceId, names)
         IN  [st |-> [r.st EXCEPT !.err = FALSE], toolNames |-> r.toolNames]

\* the descriptor of the service is served and the allocator throws its
\* naming conflict while the descriptor is translated
namingConflict(rs, serviceId, names) ==
    /\ ~fetchFails(rs)
    /\ processOpenAPIPaths(rs.desc, serviceId, names).thrown = "naming"

StartupService ==
    /\ startup = "services"
    /\ LET serviceId == Head(startupIds)
           r == startupService(startState(registry, toolDefinitions, connected),
                               remote[serviceId], serviceId, toolNames)
       IN  /\ registry' = r.st.reg
           /\ toolDefinitions' = r.st.defs
           /\ toolNames' = IF r.st.err \/ Tail(startupIds) = <<>> THEN <<>> ELSE r.toolNames
           /\ IF r.st.err
              THEN /\ startup' = "failed"
                   /\ startupIds' = <<>>
                   /\ UNCHANGED <<timerActive, connected>>
              ELSE IF Tail(startupIds) = <<>>
                   THEN StartupFinish
                   ELSE /\ startupIds' = Tail(startupIds)
                        /\ UNCHANGED <<startup, timerActive, connected>>
    /\ Mark(IF namingConflict(remote[Head(startupIds)], Head(startupIds), toolNames)
            THEN "startupConflict" ELSE "other")
    /\ UNCHANGED <<remote, handlersSet, isPolling, passes, closeCalled, closed,
                   stable>>

\* ----------------------------------------------------------------------
\* Poll scheduler and reconciliation pass
\* ----------------------------------------------------------------------

NewPass == [pc |-> "enumerate", ids |-> <<>>, acc |-> <<>>]

\* performToolCheck up to the first await of fetchAllToolMetadata: getMetadata,
\* or the descriptor fetch of the first configured service
firstCall ==
    IF usesConfiguredIds(decisionServiceIds)
    THEN [pc |-> "fetch", ids |-> decisionServiceIds, acc |-> <<>>]
    ELSE NewPass

\* a variant of checkForChanges without the isPolling test
Tick_NoLock ==
    /\ timerActive
    /\ isPolling' = TRUE
    /\ passes' = Append(passes, firstCall)
    /\ Mark("tick")
    /\ UNCHANGED <<remote, startup, startupIds, toolNames, toolDefinitions,
                   registry, handlersSet, timerActive, connected, closeCalled,
                   closed, stable>>

\* a variant whose skipped tick forgets the tracked tools
Tick_ForgetsTracked ==
    /\ timerActive
    /\ IF isPolling
       THEN /\ toolDefinitions' = <<>>
            /\ UNCHANGED <<isPolling, passes>>
       ELSE /\ isPolling' = TRUE
            /\ passes' = Append(passes, firstCall)
            /\ UNCHANGED toolDefinitions
    /\ Mark("tick")
    /\ UNCHANGED <<remote, startup, startupIds, toolNames, registry,
                   handlersSet, timerActive, connected, closeCalled, closed,
                   stable>>

\* a variant that takes the lock and starts no pass
Tick_LockOnly ==
    /\ timerActive
    /\ isPolling' = TRUE
    /\ passes' = passes
    /\ Mark("tick")
    /\ UNCHANGED <<remote, startup, startupIds, toolNames, toolDefinitions,
                   registry, handlersSet, timerActive, connected, closeCalled,
                   closed, stable>>

\* the timer callback up to the first suspension of checkForChanges: it
\* returns at once when a pass is in flight, and otherwise takes the lock
\* and issues the first remote call of fetchAllToolMetadata
Tick ==
    /\ timerActive
    /\ IF isPolling
       THEN UNCHANGED <<isPolling, passes>>
       ELSE /\ isPolling' = TRUE
            /\ passes' = Append(passes, firstCall)
    /\ Mark("tick")
    /\ UNCHANGED <<remote, startup, startupIds, toolNames, toolDefinitions,
                   registry, handlersSet, timerActive, connected, closeCalled,
                   closed, stable>>

\* a variant of the end of checkForChanges without the finally block
releaseLock_NoFinally(failed) == failed

\* isPolling after the try/catch/finally of checkForChanges
releaseLock(failed) == FALSE

\* a variant in which a pass whose snapshot failed reconciles against the
\* candidates fetched so far
PassEnd_ApplyPartial(i, thrown, newToolMetadata) ==
    LET st0 == startState(registry, toolDefinitions, connected)
        st == IF thrown # "none"
              THEN [reconcile(st0, passes[i].acc) EXCEPT !.err = TRUE]
              ELSE reconcile(st0, newToolMetadata)
    IN  /\ registry' = st.reg
        /\ toolDefinitions' = st.defs
        /\ isPolling' = releaseLock(st.err)
        /\ passes' = removeAt(passes, i)
        /\ lastEvent' = IF st.err THEN "passFailed" ELSE "passDone"
        /\ lastPass' = [added |-> st.added, removed |-> st.removed,
                        updated |-> st.updated, notes |-> st.notes,
                        cause |-> IF thrown # "none" THEN thrown
                                  ELSE IF st.err THEN "duplicate" ELSE "none",
                        snapshot |-> newToolMetadata, log |-> st.log]
        /\ stable' = IF quiet /\ stable < 2 THEN stable + 1 ELSE stable

\* the end of a pass: the synchronous part of performToolCheck when the
\* snapshot was built (failed = FALSE), then catch and finally
PassEnd(i, thrown, newToolMetadata) ==
    LET st0 == startState(registry, toolDefinitions, connected)
        st == IF thrown # "none" THEN [st0 EXCEPT !.err = TRUE]
              ELSE reconcile(st0, newToolMetadata)
    IN  /\ registry' = st.reg
        /\ toolDefinitions' = st.defs
        /\ isPolling' = releaseLock(st.err)
        /\ passes' = removeAt(passes, i)
        /\ lastEvent' = IF st.err THEN "passFailed" ELSE "passDone"
        /\ lastPass' = [added |-> st.added, removed |-> st.removed,
                        updated |-> st.updated, notes |-> st.notes,
                        cause |-> IF thrown # "none" THEN thrown
                                  ELSE IF st.err THEN "duplicate" ELSE "none",
                        snapshot |-> newToolMetadata, log |-> st.log]
        /\ stable' = IF quiet /\ stable < 2 THEN stable + 1 ELSE stable

\* getMetadata has answered, or has rejected
PassEnumerate(i) ==
    /\ passes[i].pc = "enumerate"
    /\ IF enumerationFails
       THEN PassEnd(i, "enumerate", <<>>)
       ELSE LET ids == getDecisionServiceIds(getMetadata(remote))
            IN  IF ids = <<>>
                THEN PassEnd(i, "none", <<>>)
                ELSE /\ passes' = [passes EXCEPT ![i].pc = "fetch", ![i].ids = ids]
                     /\ lastEvent' = "other"
                     /\ lastPass' = NoPass
                     /\ UNCHANGED <<registry, toolDefinitions, isPolling, stable>>
    /\ enumerated' = TRUE
    /\ peer' = peer
    /\ response' = NoResponse
    /\ UNCHANGED <<remote, startup, startupIds, toolNames, handlersSet,
                   timerActive, connected, closeCalled, closed, quiet,
                   enumerationFails, decisionServiceIds, probe>>

\* a variant of the loop body that skips a service whose fetch fails
fetchService_Isolated(rs, serviceId) ==
    IF fetchFails(rs)
    THEN [ok |-> TRUE, tools |-> <<>>, thrown |-> "none"]
    ELSE LET r == processOpenAPIPaths(rs.desc, serviceId, <<>>)
         IN  [ok |-> r.ok, tools |-> r.tools, thrown |-> r.thrown]

\* a variant that leaves out a service whose names conflict
fetchService_SkipConflict(rs, serviceId) ==
    IF fetchFails(rs)
    THEN [ok |-> FALSE, tools |-> <<>>, thrown |-> "fetch"]
    ELSE LET r == processOpenAPIPaths(rs.desc, serviceId, <<>>)
         IN  IF r.thrown = "naming"
             THEN [ok |-> TRUE, tools |-> <<>>, thrown |-> "none"]
             ELSE [ok |-> r.ok, tools |-> r.tools, thrown |-> r.thrown]

\* the body of the per-service loop of fetchAllToolMetadata: the descriptor
\* fetch, then processOpenAPIPaths with a fresh, empty name list; an
\* exception of either leaves fetchAllToolMetadata
fetchService(rs, serviceId) ==
    IF fetchFails(rs)
    THEN [ok |-> FALSE, tools |-> <<>>, thrown |-> "fetch"]
    ELSE LET r == processOpenAPIPaths(rs.desc, serviceId, <<>>)
         IN  [ok |-> r.ok, tools |-> r.tools, thrown |-> r.thrown]

\* the descriptor of the next service has answered
PassFetch(i) ==
    /\ passes[i].pc = "fetch"
    /\ LET serviceId == Head(passes[i].ids)
           r == fetchService(remote[serviceId], serviceId)
           acc == passes[i].acc \o r.tools
       IN  IF ~r.ok
           THEN PassEnd(i, r.thrown, <<>>)
           ELSE IF Tail(passes[i].ids) = <<>>
                THEN PassEnd(i, "none", acc)
                ELSE /\ passes' = [passes EXCEPT ![i].ids = Tail(@), ![i].acc = acc]
                     /\ lastEvent' = "other"
                     /\ lastPass' = NoPass
                     /\ UNCHANGED <<registry, toolDefinitions, isPolling, stable>>
    /\ enumerated' = enumerated
    /\ peer' = peer
    /\ response' = NoResponse
    /\ UNCHANGED <<remote, startup, startupIds, toolNames, handlersSet,
                   timerActive, connected, closeCalled, closed, quiet,
                   enumerationFails, decisionServiceIds, probe>>

\* ----------------------------------------------------------------------
\* Shutdown, clients, the remote runtime
\* ----------------------------------------------------------------------

\* a variant of the close override that leaves the timer alone
clearInterval_Missing(timer) == timer

\* pollTimer after clearInterval
clearInterval(timer) == FALSE

\* a variant in which close is the original close alone: the timer keeps
\* firing while the transport is released
CloseCall_OriginalOnly ==
    /\ startup = "done"
    /\ ~closeCalled
    /\ closeCalled' = TRUE
    /\ Mark("other")
    /\ UNCHANGED <<remote, startup, startupIds, toolNames, toolDefinitions,
                   registry, handlersSet, isPolling, passes, connected, closed,
                   stable, timerActive>>

\* server.close as overridden: clearInterval, then the original close starts
CloseCall ==
    /\ startup = "done"
    /\ ~closeCalled
    /\ timerActive' = clearInterval(timerActive)
    /\ closeCalled' = TRUE
    /\ Mark("other")
    /\ UNCHANGED <<remote, startup, startupIds, toolNames, toolDefinitions,
                   registry, handlersSet, isPolling, passes, connected, closed,
                   stable>>

\* the original close has completed: the transport is released
CloseDone ==
    /\ closeCalled
    /\ ~closed
    /\ closed' = TRUE
    /\ connected' = FALSE
    /\ Mark("other")
    /\ UNCHANGED <<remote, startup, startupIds, toolNames, toolDefinitions,
                   registry, handlersSet, isPolling, passes, timerActive,
                   closeCalled, stable>>

\* tools/list: answered from the registry once the handlers are installed
ListTools ==
    /\ connected
    /\ response' = IF handlersSet
                   THEN [kind |-> "tools", names |-> {e.name : e \in registry}]
                   ELSE [kind |-> "methodNotFound"]
    /\ enumerated' = enumerated
    /\ peer' = peer
    /\ lastEvent' = "listTools"
    /\ lastPass' = NoPass
    /\ UNCHANGED <<remote, startup, startupIds, toolNames, toolDefinitions,
                   registry, handlersSet, isPolling, passes, timerActive,
                   connected, closeCalled, closed, quiet, stable,
                   enumerationFails, decisionServiceIds, probe>>

\* the remote runtime changes what it answers for one service
RemoteChange ==
    /\ ~quiet
    /\ \E s \in Services, rs \in RemoteService :
          /\ rs # remote[s]
          /\ remote' = [remote EXCEPT ![s] = rs]
    /\ Mark("other")
    /\ UNCHANGED <<startup, startupIds, toolNames, toolDefinitions, registry,
                   handlersSet, isPolling, passes, timerActive, connected,
                   closeCalled, closed, stable>>

Next ==
    \/ StartupEnumerate
    \/ StartupService
    \/ Tick
    \/ \E i \in DOMAIN passes : PassEnumerate(i)
    \/ \E i \in DOMAIN passes : PassFetch(i)
    \/ CloseCall
    \/ CloseDone
    \/ ListTools
    \/ RemoteChange

Spec == Init /\ [][Next]_vars

\* ----------------------------------------------------------------------
\* A server that executes tools, against a remote runtime that does not
\* change and whose scope enumeration and metadata lookups may fail too
\* ----------------------------------------------------------------------

\* the inputs a client sends with a call
Inputs == {"i1", "i2"}

\* response.data of the execute operation: what the runtime computes for
\* the decision service, operation and input it was asked for
decide(serviceId, operation, input) ==
    [decisionServiceId |-> serviceId, operation |-> operation, output |-> input]

\* JSON.stringify: the JSON text of a value
stringify(data) == <<"json", data>>

\* axios.post(...).then(JSON.stringify(response.data)); ok = FALSE: the
\* request was rejected and so is the promise
executeLastDeployedDecisionService(serviceId, operation, input, rejected) ==
    IF rejected
    THEN [ok |-> FALSE, str |-> <<>>]
    ELSE [ok |-> TRUE, str |-> stringify(decide(serviceId, operation, input))]

\* a variant of the callback that answers a failed execution with the
\* error as text
createDecisionExecutionCallback_Swallow(decisionServiceId, operationId, input, rejected) ==
    LET r == executeLastDeployedDecisionService(decisionServiceId, operationId, input, rejected)
    IN  [kind |-> "result", content |-> << [type |-> "text", text |-> r.str] >>]

\* the callback of a tool bound to (decisionServiceId, operationId), applied
\* to an input: the awaited execution either rejects, and the callback with
\* it, or gives the one text item
createDecisionExecutionCallback(decisionServiceId, operationId, input, rejected) ==
    LET r == executeLastDeployedDecisionService(decisionServiceId, operationId, input, rejected)
    IN  IF ~r.ok
        THEN [kind |-> "rejected", content |-> <<>>]
        ELSE [kind |-> "result", content |-> << [type |-> "text", text |-> r.str] >>]

\* tools/call of a registered tool: its callback runs; the runtime answers
\* the execution or rejects it
CallTool ==
    /\ connected
    /\ handlersSet
    /\ \E e \in registry, input \in Inputs, rejected \in BOOLEAN :
          response' = [kind |-> "call", tool |-> e.name, input |-> input,
                       rejected |-> rejected,
                       outcome |-> createDecisionExecutionCallback(
                                       e.service, e.operation, input, rejected)]
    /\ enumerated' = enumerated
    /\ peer' = peer
    /\ lastEvent' = "callTool"
    /\ lastPass' = NoPass
    /\ UNCHANGED <<remote, startup, startupIds, toolNames, toolDefinitions,
                   registry, handlersSet, isPolling, passes, timerActive,
                   connected, closeCalled, closed, quiet, stable,
                   enumerationFails, decisionServiceIds, probe>>

\* a deployed service whose descriptor is served and whose decision
\* metadata lookup (getDecisionMetadata in getToolName) rejects: no candidate
\* of the service is produced
LookupFailure == [status |-> "nometa", desc |-> NoDescriptor]

InitServing ==
    /\ remote \in [Services -> RemoteService \cup {LookupFailure}]
    /\ quiet = TRUE
    /\ enumerationFails \in BOOLEAN
    /\ decisionServiceIds = <<>>
    /\ Created

NextServing ==
    \/ StartupEnumerate
    \/ StartupService
    \/ Tick
    \/ \E i \in DOMAIN passes : PassEnumerate(i)
    \/ \E i \in DOMAIN passes : PassFetch(i)
    \/ CloseCall
    \/ CloseDone
    \/ ListTools
    \/ CallTool

SpecServing == InitServing /\ [][NextServing]_vars

\* ----------------------------------------------------------------------
\* A server whose timer keeps firing and whose remote calls are answered,
\* against a remote runtime that changes and at some point stops changing
\* ----------------------------------------------------------------------

\* the remote runtime has changed for the last time
Settle ==
    /\ startup = "done"
    /\ ~quiet
    /\ quiet' = TRUE
    /\ enumerated' = enumerated
    /\ peer' = peer
    /\ lastEvent' = "other"
    /\ lastPass' = NoPass
    /\ response' = NoResponse
    /\ UNCHANGED <<remote, startup, startupIds, toolNames, toolDefinitions,
                   registry, handlersSet, isPolling, passes, timerActive,
                   connected, closeCalled, closed, stable, enumerationFails, decisionServiceIds,
                   probe>>

\* what the runtime answers for a service whose calls succeed: not deployed,
\* or deployed with one of the input schemas, no override name
LiveService ==
    {rs \in RemoteService :
        /\ rs.status \in {"ok", "absent"}
        /\ rs.desc.override = NoOverride
        /\ rs.desc.title \in {NoDescriptor.title, BaseDescriptor.title}}

\* a decision service is deployed, undeployed, or deployed again with
\* another input schema
Redeploy ==
    /\ ~quiet
    /\ \E s \in Services, rs \in LiveService :
          /\ rs # remote[s]
          /\ remote' = [remote EXCEPT ![s] = rs]
    /\ Mark("other")
    /\ UNCHANGED <<startup, startupIds, toolNames, toolDefinitions, registry,
                   handlersSet, isPolling, passes, timerActive, connected,
                   closeCalled, closed, stable>>

InitLive ==
    /\ remote \in [Services -> LiveService]
    /\ quiet = FALSE
    /\ enumerationFails = FALSE
    /\ decisionServiceIds = <<>>
    /\ Created

NextLive ==
    \/ StartupEnumerate
    \/ StartupService
    \/ Tick
    \/ \E i \in DOMAIN passes : PassEnumerate(i)
    \/ \E i \in DOMAIN passes : PassFetch(i)
    \/ Redeploy
    \/ Settle

\* an awaited remote call of createMcpServer is answered
startupStep == StartupEnumerate \/ StartupService

\* an awaited remote call of the pass in flight is answered
passStep == \E i \in DOMAIN passes : PassEnumerate(i) \/ PassFetch(i)

\* setInterval fires the callback again and again as long as the timer is
\* set, and every awaited remote call is answered (or rejected) in the end:
\* weak fairness of Tick, of startupStep and of passStep.  For the last two
\* the enabling condition is written out: startupStep is enabled exactly
\* while createMcpServer is in its loop, passStep exactly while a pass is in
\* flight.
SpecLive ==
    /\ InitLive
    /\ [][NextLive]_vars
    /\ WF_vars(Tick)
    /\ ([]<>(startup \notin {"enumerate", "services"}) \/ []<><<startupStep>>_vars)
    /\ ([]<>(passes = <<>>) \/ []<><<passStep>>_vars)

\* ----------------------------------------------------------------------
\* The server and its polling alone, without clients and without shutdown,
\* against a remote runtime whose services may also declare several
\* operations, up to a naming conflict of the allocator
\* ----------------------------------------------------------------------

\* operation identifiers, distinct within the service, that the substitution
\* of the allocator maps to one name
CollidingIds == << <<"o", " ">>, <<"o", "/">>, <<"o", "_">> >>

ExtraPaths(n) == [i \in 1..n |-> path("ok", CollidingIds[i], BaseDescriptor.hash, BaseDescriptor.title)]

\* a service with four operations: the allocator throws for the last one
ManyOperations ==
    {[status |-> "ok", desc |-> [BaseDescriptor EXCEPT !.extra = ExtraPaths(Len(CollidingIds))]]}

PassService ==
    {rs \in RemoteService :
        rs.status # "incident" /\ rs.desc.title \in {NoDescriptor.title, BaseDescriptor.title}}
        \cup ManyOperations

\* the deployed services change between any two steps
Republish ==
    /\ \E s \in Services, rs \in PassService :
          /\ rs # remote[s]
          /\ remote' = [remote EXCEPT ![s] = rs]
    /\ Mark("other")
    /\ UNCHANGED <<startup, startupIds, toolNames, toolDefinitions, registry,
                   handlersSet, isPolling, passes, timerActive, connected,
                   closeCalled, closed, stable>>

InitPasses ==
    /\ remote \in [Services -> PassService]
    /\ quiet = FALSE
    /\ enumerationFails = FALSE
    /\ decisionServiceIds = <<>>
    /\ Created

NextPasses ==
    \/ StartupEnumerate
    \/ StartupService
    \/ Tick
    \/ \E i \in DOMAIN passes : PassEnumerate(i)
    \/ \E i \in DOMAIN passes : PassFetch(i)
    \/ Republish

SpecPasses == InitPasses /\ [][NextPasses]_vars

\* createMcpServer is called a second time in the process: the other server
\* has its own registry, tracked list and timer, and polls through the same
\* toolChangeMonitor
CreatePeer ==
    /\ peer = "none"
    /\ peer' = "idle"
    /\ lastEvent' = "peer"
    /\ lastPass' = NoPass
    /\ response' = NoResponse
    /\ UNCHANGED <<remote, startup, startupIds, toolNames, toolDefinitions,
                   registry, handlersSet, isPolling, passes, timerActive,
                   connected, closeCalled, closed, quiet, stable,
                   enumerationFails, probe, decisionServiceIds, enumerated>>

\* the timer callback of the other server: checkForChanges of the one
\* toolChangeMonitor, called with the other server's arguments
PeerTick ==
    /\ peer # "none"
    /\ IF isPolling
       THEN UNCHANGED <<isPolling, peer>>
       ELSE /\ isPolling' = TRUE
            /\ peer' = "inFlight"
    /\ lastEvent' = "peer"
    /\ lastPass' = NoPass
    /\ response' = NoResponse
    /\ UNCHANGED <<remote, startup, startupIds, toolNames, toolDefinitions,
                   registry, handlersSet, passes, timerActive, connected,
                   closeCalled, closed, quiet, stable, enumerationFails,
                   probe, decisionServiceIds, enumerated>>

\* the pass of the other server ends: it has worked on the other server's
\* registry and tracked list, and the finally block clears the flag
PeerPassEnd ==
    /\ peer = "inFlight"
    /\ peer' = "idle"
    /\ isPolling' = releaseLock(FALSE)
    /\ lastEvent' = "peer"
    /\ lastPass' = NoPass
    /\ response' = NoResponse
    /\ UNCHANGED <<remote, startup, startupIds, toolNames, toolDefinitions,
                   registry, handlersSet, passes, timerActive, connected,
                   closeCalled, closed, quiet, stable, enumerationFails,
                   probe, decisionServiceIds, enumerated>>

\* two servers in one process, the remote runtime changing between passes
NextServers ==
    \/ StartupEnumerate
    \/ StartupService
    \/ Tick
    \/ \E i \in DOMAIN passes : PassEnumerate(i)
    \/ \E i \in DOMAIN passes : PassFetch(i)
    \/ Republish
    \/ CreatePeer
    \/ PeerTick
    \/ PeerPassEnd

SpecServers == InitPasses /\ [][NextServers]_vars

\* the same with a server that is closed at some point
NextShutdown ==
    \/ StartupEnumerate
    \/ StartupService
    \/ Tick
    \/ \E i \in DOMAIN passes : PassEnumerate(i)
    \/ \E i \in DOMAIN passes : PassFetch(i)
    \/ Republish
    \/ CloseCall
    \/ CloseDone

SpecShutdown == InitPasses /\ [][NextShutdown]_vars

\* the same with the timer firing again and again and every awaited remote
\* call answered or rejected in the end (see SpecLive); the remote runtime
\* may go on changing for ever
SpecPassesLive ==
    /\ SpecPasses
    /\ WF_vars(Tick)
    /\ ([]<>(startup \notin {"enumerate", "services"}) \/ []<><<startupStep>>_vars)
    /\ ([]<>(passes = <<>>) \/ []<><<passStep>>_vars)

\* ----------------------------------------------------------------------
\* A server that is configured with decision service ids, or with none,
\* against a remote runtime that does not change and whose scope
\* enumeration, descriptor fetches, metadata lookups and allocator may fail
\* ----------------------------------------------------------------------

\* configuration.decisionServiceIds: none, one service, both services in
\* another order than the runtime lists them, one service twice
ConfiguredIds ==
    { <<>>, <<ServiceIds[2]>>, <<ServiceIds[2], ServiceIds[1]>>,
      <<ServiceIds[1], ServiceIds[1]>> }

InitConfigured ==
    /\ remote \in [Services -> PassService \cup {LookupFailure}]
    /\ quiet = TRUE
    /\ enumerationFails \in BOOLEAN
    /\ decisionServiceIds \in ConfiguredIds
    /\ Created

\* the enumeration of the deployment space starts or stops failing while
\* the server runs
Outage ==
    /\ startup = "done"
    /\ enumerationFails' = ~enumerationFails
    /\ lastEvent' = "other"
    /\ lastPass' = NoPass
    /\ response' = NoResponse
    /\ UNCHANGED <<remote, startup, startupIds, toolNames, toolDefinitions,
                   registry, handlersSet, isPolling, passes, timerActive,
                   connected, closeCalled, closed, quiet, stable, probe,
                   decisionServiceIds, enumerated, peer>>

NextConfigured ==
    \/ Outage
    \/ StartupEnumerate
    \/ StartupService
    \/ Tick
    \/ \E i \in DOMAIN passes : PassEnumerate(i)
    \/ \E i \in DOMAIN passes : PassFetch(i)

SpecConfigured == InitConfigured /\ [][NextConfigured]_vars

\* ----------------------------------------------------------------------
\* Applications of the functions of src/src/ditool.ts and of
\* Configuration.validatePollInterval of src/src/command-line.ts: each action
\* applies one function to inputs drawn from the sets below and records the
\* inputs and the result in probe; the server is not started.  A run
\* applies one function once.
\* ----------------------------------------------------------------------

\* longest list of existing names handed to the allocator
MaxNames == 2

\* longest poll-interval text handed to validatePollInterval
MaxText == 3

SeqsUpTo(S, n) == UNION {[1..k -> S] : k \in 0..n}

\* display names and service identities: a letter, the two characters that
\* are replaced, and the replacement itself
ProbeNames == { <<"a">>, <<" ">>, <<"/">>, <<"_">> }

ProbeOperationIds == { <<"o">>, <<" ">> }

\* the names an existing-name list may hold: what the two steps of the
\* algorithm produce for the inputs above, before and after the substitution
ProbeExisting ==
    {n \o <<" ">> \o o : n \in ProbeNames, o \in ProbeOperationIds}
        \cup {sanitize(n \o <<" ">> \o o) : n \in ProbeNames, o \in ProbeOperationIds}

\* metadata.map["mcpToolName." + operationId]: no entry, or an entry with a
\* value (the empty one, a fresh one, one that needs the substitution and is
\* an existing name, one that is an existing name)
MetadataEntries ==
    {[present |-> FALSE, value |-> <<>>]}
        \cup {[present |-> TRUE, value |-> v] :
                 v \in { <<>>, <<"X">>, <<"a", " ", "o">>, <<"a", "_", "o">> }}

\* metadata.map[metadataName]?.value: undefined without an entry; undefined
\* and the empty string are both falsy
metadataValue(entry) == IF entry.present THEN entry.value ELSE NoOverride

\* the server as created, with nothing deployed
InitFunctions ==
    /\ remote = [s \in Services |-> [status |-> "absent", desc |-> NoDescriptor]]
    /\ quiet = TRUE
    /\ enumerationFails = FALSE
    /\ decisionServiceIds = <<>>
    /\ Created

GenerateToolName ==
    /\ probe = NoProbe
    /\ \E operationId \in ProbeOperationIds, decisionServiceName \in ProbeNames,
          decisionServiceId \in ProbeNames, names \in SeqsUpTo(ProbeExisting, MaxNames) :
          probe' = [fn |-> "generateToolName", operationId |-> operationId,
                    decisionServiceName |-> decisionServiceName,
                    decisionServiceId |-> decisionServiceId, toolNames |-> names,
                    result |-> generateToolName(operationId, decisionServiceName,
                                                decisionServiceId, names)]
    /\ UNCHANGED <<remote, startup, startupIds, toolNames, toolDefinitions,
                   registry, handlersSet, isPolling, passes, timerActive,
                   connected, closeCalled, closed, lastEvent, lastPass, quiet,
                   stable, response, enumerationFails, decisionServiceIds,
                   enumerated, peer>>

GetToolName ==
    /\ probe = NoProbe
    /\ \E entry \in MetadataEntries, operationId \in ProbeOperationIds,
          decisionServiceName \in ProbeNames, decisionServiceId \in ProbeNames,
          names \in SeqsUpTo(ProbeExisting, MaxNames) :
          probe' = [fn |-> "getToolName", metadata |-> entry,
                    operationId |-> operationId,
                    decisionServiceName |-> decisionServiceName,
                    decisionServiceId |-> decisionServiceId, toolNames |-> names,
                    result |-> getToolName(
                        [BaseDescriptor EXCEPT !.name = decisionServiceName,
                                               !.override = metadataValue(entry)],
                        operationId, decisionServiceId, names)]
    /\ UNCHANGED <<remote, startup, startupIds, toolNames, toolDefinitions,
                   registry, handlersSet, isPolling, passes, timerActive,
                   connected, closeCalled, closed, lastEvent, lastPass, quiet,
                   stable, response, enumerationFails, decisionServiceIds,
                   enumerated, peer>>

MIN_POLL_INTERVAL_S == 1

DEFAULT_POLL_INTERVAL_S == 30

MS_IN_ONE_SECOND == 1000

defaultPollIntervalMs == DEFAULT_POLL_INTERVAL_S * MS_IN_ONE_SECOND

Digits == <<"0", "1", "2", "3", "4", "5", "6", "7", "8", "9">>

isDigit(c) == \E d \in DOMAIN Digits : Digits[d] = c

digitValue(c) == (CHOOSE d \in DOMAIN Digits : Digits[d] = c) - 1

\* the characters of the poll-interval texts: digits, a character that no
\* number holds, the sign and the space
TextChars == {"0", "1", "2", "x", "-", " "}

RECURSIVE trimStart(_)
trimStart(s) == IF s # <<>> /\ Head(s) = " " THEN trimStart(Tail(s)) ELSE s

RECURSIVE leadingDigits(_)
leadingDigits(s) ==
    IF s # <<>> /\ isDigit(Head(s)) THEN <<Head(s)>> \o leadingDigits(Tail(s)) ELSE <<>>

RECURSIVE decimal(_, _)
decimal(ds, acc) ==
    IF ds = <<>> THEN acc ELSE decimal(Tail(ds), 10 * acc + digitValue(Head(ds)))

\* parseInt(string, 10): leading white space is skipped, a sign is taken, the
\* longest run of digits that follows is the number and what comes after it
\* is ignored; NaN when no digit is found there
parseInt(string) ==
    LET t == trimStart(string)
        signed == t # <<>> /\ Head(t) \in {"-", "+"}
        ds == leadingDigits(IF signed THEN Tail(t) ELSE t)
    IN  IF ds = <<>>
        THEN [nan |-> TRUE, value |-> 0]
        ELSE [nan |-> FALSE,
              value |-> IF signed /\ Head(t) = "-" THEN 0 - decimal(ds, 0) ELSE decimal(ds, 0)]

\* result: ok = FALSE stands for the thrown error (no Configuration is
\* created); ms is the pollIntervalMs the Configuration is created with
validatePollInterval(pollInterval) ==
    IF ~pollInterval.defined
    THEN [ok |-> TRUE, ms |-> defaultPollIntervalMs]
    ELSE LET parsedIntervalSeconds == parseInt(pollInterval.text)
         IN  IF parsedIntervalSeconds.nan
             THEN [ok |-> FALSE, ms |-> 0]
             ELSE IF parsedIntervalSeconds.value < MIN_POLL_INTERVAL_S
                  THEN [ok |-> FALSE, ms |-> 0]
                  ELSE [ok |-> TRUE, ms |-> parsedIntervalSeconds.value * MS_IN_ONE_SECOND]

\* the option as createConfiguration resolves it: undefined, or a text
PollIntervalOptions ==
    {[defined |-> FALSE, text |-> <<>>]}
        \cup {[defined |-> TRUE, text |-> t] : t \in SeqsUpTo(TextChars, MaxText)}

ValidatePollInterval ==
    /\ probe = NoProbe
    /\ \E pollInterval \in PollIntervalOptions :
          probe' = [fn |-> "validatePollInterval", pollInterval |-> pollInterval,
                    result |-> validatePollInterval(pollInterval)]
    /\ UNCHANGED <<remote, startup, startupIds, toolNames, toolDefinitions,
                   registry, handlersSet, isPolling, passes, timerActive,
                   connected, closeCalled, closed, lastEvent, lastPass, quiet,
                   stable, response, enumerationFails, decisionServiceIds,
                   enumerated, peer>>

\* most paths a descriptor declares besides that of OperationId
MaxPaths == 2

\* a sibling path of the descriptor: the operation <<"p">>, in every shape
ProbePaths ==
    {path(kind, <<"p">>, BaseDescriptor.hash, BaseDescriptor.title) : kind \in PathKinds}

ProbeDescriptors ==
    {[BaseDescriptor EXCEPT !.extra = extra] : extra \in SeqsUpTo(ProbePaths, MaxPaths)}

ProcessOpenAPIPaths ==
    /\ probe = NoProbe
    /\ \E openapi \in ProbeDescriptors, serviceId \in Services :
          probe' = [fn |-> "processOpenAPIPaths", openapi |-> openapi,
                    serviceId |-> serviceId,
                    result |-> processOpenAPIPaths(openapi, serviceId, <<>>)]
    /\ UNCHANGED <<remote, startup, startupIds, toolNames, toolDefinitions,
                   registry, handlersSet, isPolling, passes, timerActive,
                   connected, closeCalled, closed, lastEvent, lastPass, quiet,
                   stable, response, enumerationFails, decisionServiceIds,
                   enumerated, peer>>

\* longest metadata list handed to getDecisionServiceIds
MaxMetadata == 4

\* the decisionServiceId values of the metadata entries
ProbeServiceIds == { <<"1">>, <<"2">>, <<"3">> }

GetDecisionServiceIds ==
    /\ probe = NoProbe
    /\ \E metadata \in SeqsUpTo(ProbeServiceIds, MaxMetadata) :
          probe' = [fn |-> "getDecisionServiceIds", metadata |-> metadata,
                    result |-> getDecisionServiceIds(metadata)]
    /\ UNCHANGED <<remote, startup, startupIds, toolNames, toolDefinitions,
                   registry, handlersSet, isPolling, passes, timerActive,
                   connected, closeCalled, closed, lastEvent, lastPass, quiet,
                   stable, response, enumerationFails, decisionServiceIds,
                   enumerated, peer>>

NextFunctions ==
    \/ GetDecisionServiceIds
    \/ GenerateToolName
    \/ GetToolName
    \/ ValidatePollInterval
    \/ ProcessOpenAPIPaths

SpecFunctions == InitFunctions /\ [][NextFunctions]_vars

\* ----------------------------------------------------------------------
\* Properties
\* ----------------------------------------------------------------------

passEnded == lastEvent \in {"passDone", "passFailed"}

operations(p) == p.added + p.removed + p.updated

Range(seq) == {seq[i] : i \in DOMAIN seq}

\* C1: at every point in time the live registry holds no two entries with the
\* same external name, whatever the remote runtime answers (services sharing
\* a display name or an override name included).
C1_UniqueNames ==
    \A e1 \in registry, e2 \in registry : e1.name = e2.name => e1 = e2

\* a pass that registered a tool and then met a second candidate of a name
\* that is registered: the registry is left with one entry of that name
C1_Witness ==
    /\ lastEvent = "passFailed"
    /\ lastPass.cause = "duplicate"
    /\ lastPass.added >= 1
    /\ \E e \in registry : e.name = <<"X">>

\* C2: when the remote runtime does not change, the second reconciliation
\* pass in a row (and every later one) performs no addition, no removal and
\* no update.
C2_Idempotent ==
    (passEnded /\ quiet /\ stable = 2) => operations(lastPass) = 0

\* C3: at most one pass is in flight, and a timer tick that fires while a
\* pass is in flight starts no pass and changes neither the registry, the
\* tracked tools, the pass in flight nor the lock: nothing is left behind
\* that would run a pass later.
C3_ConcurrentPassSkip ==
    /\ [](Len(passes) <= 1)
    /\ [][(isPolling /\ lastEvent' = "tick") =>
            UNCHANGED <<passes, registry, toolDefinitions, isPolling, timerActive>>]_vars

\* a tick has fired while the pass in flight was waiting for a descriptor
C3_Witness ==
    /\ lastEvent = "tick"
    /\ isPolling
    /\ Len(passes) = 1
    /\ passes[1].pc = "fetch"

\* C4: a descriptor fetch that fails during a poll pass does not make the
\* pass fail: no error propagates from the failing service.
C4_PassIsolation ==
    ~(lastEvent = "passFailed" /\ lastPass.cause = "fetch")

registeredFor(s) == \E e \in registry : e.service = s

\* an earlier service of the enumeration has taken the override name of s
overrideTaken(s) ==
    /\ remote[s].desc.override # NoOverride
    /\ \E i, j \in DOMAIN ServiceIds :
          /\ i < j
          /\ ServiceIds[j] = s
          /\ remote[ServiceIds[i]].status = "ok"
          /\ remote[ServiceIds[i]].desc.override = remote[s].desc.override

\* C5: in the initial registration a service whose descriptor fetch fails (by
\* transport error or by incident payload) registers nothing and changes
\* nothing, createMcpServer does not fail, the other services get their
\* tools, and list-tools is answered with the tool list.
C5_StartupIsolation ==
    /\ [][(startup = "services" /\ startupIds' # startupIds
              /\ fetchFails(remote[Head(startupIds)])) =>
            (UNCHANGED <<registry, toolDefinitions>> /\ startup' \in {"services", "done"})]_vars
    /\ [](startup # "failed")
    /\ []((quiet /\ startup = "done" /\ stable = 0) =>
            \A s \in Services :
                /\ fetchFails(remote[s]) => ~registeredFor(s)
                /\ (remote[s].status = "ok" /\ ~overrideTaken(s)) => registeredFor(s))
    /\ []((lastEvent = "listTools") =>
            (response.kind = "tools" /\ response.names = {e.name : e \in registry}))

\* startup is over: the first service answered an incident payload, the
\* second one is registered, and list-tools has been answered with its tool
C5_Witness ==
    /\ quiet
    /\ startup = "done"
    /\ stable = 0
    /\ remote[ServiceIds[1]].status = "incident"
    /\ remote[ServiceIds[2]].status = "ok"
    /\ lastEvent = "listTools"
    /\ response.names = {sanitize(BaseDescriptor.name \o <<" ">> \o OperationId)}

nameCount(tools, name) == Cardinality({i \in DOMAIN tools : tools[i].name = name})

\* C6: after a pass that completed, a name that one operation of the pass's
\* snapshot produces is bound in the registry to that operation, also when
\* the name was bound to another operation before the pass.
C6_Rebinding ==
    lastEvent = "passDone" =>
        \A i \in DOMAIN lastPass.snapshot :
            LET c == lastPass.snapshot[i]
            IN  nameCount(lastPass.snapshot, c.name) = 1 =>
                    \E e \in registry :
                        /\ e.name = c.name
                        /\ e.service = c.decisionServiceId
                        /\ e.operation = c.operationId

sameHash(tool, snapshot) ==
    /\ tool.name \in namesOf(snapshot)
    /\ \A i \in DOMAIN snapshot :
          snapshot[i].name = tool.name => snapshot[i].inputSchemaHash = tool.inputSchemaHash

\* C7: a pass leaves a tracked tool and its registry entry as they were
\* (title included) when every candidate of its name has the tracked
\* fingerprint, whatever the candidate's title is; a pass in which this is so
\* for every tracked tool and that brings no new name performs no operation.
C7_FingerprintOnly ==
    [][(lastEvent' \in {"passDone", "passFailed"} /\ lastPass'.cause \in {"none", "duplicate"}) =>
          /\ \A i \in DOMAIN toolDefinitions :
                sameHash(toolDefinitions[i], lastPass'.snapshot) =>
                    /\ toolDefinitions[i] \in Range(toolDefinitions')
                    /\ \A e \in registry :
                          e.handle = toolDefinitions[i].registeredTool => e \in registry'
          /\ ((namesOf(lastPass'.snapshot) = namesOf(toolDefinitions)
                 /\ \A i \in DOMAIN toolDefinitions :
                       sameHash(toolDefinitions[i], lastPass'.snapshot))
                => (operations(lastPass') = 0 /\ lastPass'.notes = 0))]_vars

\* a pass has ended without any operation although the candidate of a
\* registered tool, from the same service, carried another title
C7_Witness ==
    /\ lastEvent = "passDone"
    /\ operations(lastPass) = 0
    /\ \E i \in DOMAIN lastPass.snapshot : \E e \in registry :
          /\ e.name = lastPass.snapshot[i].name
          /\ e.service = lastPass.snapshot[i].decisionServiceId
          /\ e.schema = lastPass.snapshot[i].inputSchemaHash
          /\ e.title # lastPass.snapshot[i].title

\* C8: whenever a pass ends, by success or by an exception, the lock is
\* released and no pass is left in flight; the timer is not touched by the
\* failure; a tick that follows a failed pass starts a new pass.
C8_FailureContained ==
    /\ [](passEnded => (~isPolling /\ passes = <<>>))
    /\ [](isPolling <=> passes # <<>>)
    /\ [][lastEvent' = "passFailed" => timerActive' = timerActive]_vars
    /\ [][(lastEvent = "passFailed" /\ lastEvent' = "tick") =>
            (isPolling' /\ passes' = <<NewPass>>)]_vars

\* a pass has failed while the server is running: the timer is on and the
\* lock is free
C8_Witness ==
    /\ lastEvent = "passFailed"
    /\ timerActive
    /\ ~isPolling

\* C9: a pass that completes while the server is connected sends a
\* tool-list-changed notification when it has added, removed or updated a
\* tool, and sends none when it has not.
C9_Notification ==
    (lastEvent = "passDone" /\ connected) =>
        /\ operations(lastPass) >= 1 => lastPass.notes >= 1
        /\ operations(lastPass) = 0 => lastPass.notes = 0

\* a pass whose only operation was an update has sent a notification
C9_Witness ==
    /\ lastEvent = "passDone"
    /\ connected
    /\ lastPass.updated = 1
    /\ lastPass.added = 0
    /\ lastPass.removed = 0
    /\ lastPass.notes >= 1

\* C10: once close has been called the timer is cancelled, before the server
\* is released, and no pass is started any more.
C10_Shutdown ==
    /\ [](closeCalled => ~timerActive)
    /\ [](closed => closeCalled)
    /\ [][closeCalled => Len(passes') <= Len(passes)]_vars

\* close has been called and the server is not released yet: the timer is
\* off while a pass is still in flight
C10_Witness ==
    /\ closeCalled
    /\ ~closed
    /\ ~timerActive
    /\ passes # <<>>

\* C11: once createMcpServer has installed the handlers, a list-tools
\* request is answered in every state with the names of the registry as it
\* is (the empty list included), never with method-not-found: with no tool
\* at startup, after a pass has removed every tool, and while a pass is in
\* flight or after one has failed.
C11_ListAnswerable ==
    /\ handlersSet
    /\ (lastEvent = "listTools") =>
            /\ response.kind = "tools"
            /\ response.names = {e.name : e \in registry}

\* list-tools has been answered with the empty list while a pass is in
\* flight and a service is deployed whose tool a pass has removed or has
\* never registered
C11_Witness ==
    /\ lastEvent = "listTools"
    /\ response.kind = "tools"
    /\ response.names = {}
    /\ isPolling
    /\ \E s \in Services : remote[s].status = "ok"

\* the substitution, character by character
substituted(s) == [i \in 1..Len(s) |-> IF s[i] \in {" ", "/"} THEN "_" ELSE s[i]]

\* C12: generateToolName returns the display name, a space and the operation
\* id with every space and '/' replaced by '_' when that name is not an
\* existing name; otherwise the same built from the service identity when
\* that one is not an existing name; otherwise it fails, naming that second
\* name.  A returned name is no existing name and holds no space and no '/'.
C12_DefaultAllocation ==
    probe.fn = "generateToolName" =>
        LET default == substituted(probe.decisionServiceName \o <<" ">> \o probe.operationId)
            fallback == substituted(probe.decisionServiceId \o <<" ">> \o probe.operationId)
            existing == Range(probe.toolNames)
        IN  /\ default \notin existing => probe.result = [ok |-> TRUE, name |-> default]
            /\ (default \in existing /\ fallback \notin existing) =>
                   probe.result = [ok |-> TRUE, name |-> fallback]
            /\ (default \in existing /\ fallback \in existing) =>
                   probe.result = [ok |-> FALSE, name |-> fallback]
            /\ probe.result.ok =>
                   /\ probe.result.name \notin existing
                   /\ \A i \in DOMAIN probe.result.name :
                          probe.result.name[i] \notin {" ", "/"}

\* the default name of display name "a" was taken and the service identity
\* "/" has given the name "__o"
C12_Witness ==
    /\ probe.fn = "generateToolName"
    /\ probe.decisionServiceName = <<"a">>
    /\ probe.decisionServiceId = <<"/">>
    /\ probe.operationId = <<"o">>
    /\ probe.toolNames = << <<"a", "_", "o">> >>
    /\ probe.result = [ok |-> TRUE, name |-> <<"_", "_", "o">>]

\* C13: when the two services are deployed with the same display name and
\* operation id and no override, the initial registration gives the first
\* one the name built from the display name and the second one the name
\* built from its service identity, and the registry holds both tools.
C13_Collision ==
    (/\ quiet
     /\ startup = "done"
     /\ stable = 0
     /\ \A s \in Services :
           /\ remote[s].status = "ok"
           /\ remote[s].desc.override = NoOverride
           /\ remote[s].desc.name = <<"D", " ", "/", "S">>)
    => /\ {[name |-> e.name, service |-> e.service, operation |-> e.operation] : e \in registry}
            = {[name |-> <<"D", "_", "_", "S", "_", "o">>, service |-> <<"1">>,
                operation |-> <<"o">>],
               [name |-> <<"2", "_", "o">>, service |-> <<"2">>, operation |-> <<"o">>]}
       /\ Cardinality(registry) = 2
       /\ namesOf(toolDefinitions) = {e.name : e \in registry}

\* both services were registered at startup and list-tools has answered the
\* two names
C13_Witness ==
    /\ quiet
    /\ startup = "done"
    /\ stable = 0
    /\ \A s \in Services :
          remote[s].status = "ok" /\ remote[s].desc.override = NoOverride
    /\ lastEvent = "listTools"
    /\ response.names = { <<"D", "_", "_", "S", "_", "o">>, <<"2", "_", "o">> }

\* C14: when the decision metadata holds a non-empty value under
\* "mcpToolName." + operationId, getToolName returns that value as it is,
\* whatever the existing names are: no substitution, no collision check, no
\* naming conflict.  Without an entry, and with an empty value, the name is
\* one of the two names of the default algorithm.
C14_OverrideVerbatim ==
    probe.fn = "getToolName" =>
        LET entry == probe.metadata
            default == substituted(probe.decisionServiceName \o <<" ">> \o probe.operationId)
            fallback == substituted(probe.decisionServiceId \o <<" ">> \o probe.operationId)
        IN  /\ (entry.present /\ entry.value # <<>>) =>
                   probe.result = [ok |-> TRUE, name |-> entry.value]
            /\ (~entry.present \/ entry.value = <<>>) =>
                   /\ probe.result.name \in {default, fallback}
                   /\ probe.result.ok => ~includes(probe.toolNames, probe.result.name)

\* the override "a o" was returned although it is an existing name and
\* holds a space
C14_Witness ==
    /\ probe.fn = "getToolName"
    /\ probe.metadata = [present |-> TRUE, value |-> <<"a", " ", "o">>]
    /\ includes(probe.toolNames, <<"a", " ", "o">>)
    /\ probe.result = [ok |-> TRUE, name |-> <<"a", " ", "o">>]

\* C14 as stated: whenever the decision metadata holds a value under the
\* key, the empty value included, getToolName returns that value.
C14_OverrideAnyValue ==
    (probe.fn = "getToolName" /\ probe.metadata.present) =>
        probe.result = [ok |-> TRUE, name |-> probe.metadata.value]

callsSucceed ==
    \A s \in Services :
        /\ remote[s].status \in {"ok", "absent"}
        /\ remote[s].desc.override = NoOverride

\* the registry shows the remote state: a tool bound to each deployed
\* operation with the schema it publishes, and no tool bound to an operation
\* that is not deployed
reflected ==
    \A s \in Services :
        /\ remote[s].status = "ok" =>
              \E e \in registry :
                  /\ e.service = s
                  /\ e.operation = OperationId
                  /\ e.schema = hashInputSchema(remote[s].desc.hash)
        /\ remote[s].status = "absent" => ~registeredFor(s)

\* C16: once the remote runtime has stopped changing, with every remote
\* call succeeding, the registry eventually shows the remote state (timer
\* ticks and the answers of the remote calls being fair).
C16_EventuallyReflected ==
    (quiet /\ callsSucceed) ~> reflected

\* a text that holds a character no decimal number holds
notANumber(text) ==
    \E i \in DOMAIN text : ~isDigit(text[i]) /\ text[i] \notin {"-", "+", " "}

allDigits(text) == text # <<>> /\ \A i \in DOMAIN text : isDigit(text[i])

\* C17: the poll interval of a created configuration is at least 1000
\* milliseconds, and 30000 when no value is supplied; a supplied text that
\* is not a number, or a number below the minimum, is rejected and no
\* configuration is created.
C17_PollIntervalBounds ==
    probe.fn = "validatePollInterval" =>
        /\ probe.result.ok => probe.result.ms >= 1000
        /\ ~probe.pollInterval.defined => probe.result = [ok |-> TRUE, ms |-> 30000]
        /\ (probe.pollInterval.defined /\ notANumber(probe.pollInterval.text)) =>
               ~probe.result.ok
        /\ (probe.pollInterval.defined /\ allDigits(probe.pollInterval.text)
                /\ decimal(probe.pollInterval.text, 0) * 1000 < 1000) =>
               ~probe.result.ok

\* C18: a call of a registered tool executes the decision service and
\* operation the tool is bound to with the input of the call and answers
\* one content item of type text holding the JSON text of what the runtime
\* returned; a rejected execution rejects the call; in both cases the
\* registry and the tracked tools are left as they were.
C18_ToolExecution ==
    /\ [](lastEvent = "callTool" =>
            \E e \in registry :
                /\ e.name = response.tool
                /\ IF response.rejected
                   THEN response.outcome.kind = "rejected"
                   ELSE /\ response.outcome.kind = "result"
                        /\ Len(response.outcome.content) = 1
                        /\ response.outcome.content[1].type = "text"
                        /\ response.outcome.content[1].text =
                               <<"json", [decisionServiceId |-> e.service,
                                          operation |-> e.operation,
                                          output |-> response.input]>>)
    /\ [][lastEvent' = "callTool" => UNCHANGED <<registry, toolDefinitions>>]_vars

\* the tool that startup registered for the second service under its
\* fallback name has been called and the runtime has rejected the execution
C18_Witness ==
    /\ lastEvent = "callTool"
    /\ response.tool = <<"2", "_", "o">>
    /\ response.rejected
    /\ response.outcome.kind = "rejected"
    /\ \E e \in registry : e.name = response.tool /\ e.service = <<"2">>

\* C19: whatever the remote calls of the initial snapshot answer (a failing
\* scope enumeration, descriptor fetch or metadata lookup included),
\* createMcpServer does not fail, and when it has completed the handlers are
\* installed and the poll timer has been started.
C19_StartupCompletes ==
    /\ startup # "failed"
    /\ startup = "done" => (handlersSet /\ (timerActive \/ closeCalled))

\* C20: in the candidate set that a poll pass has built, no two candidates
\* that the default algorithm has named carry the same name.
C20_SnapshotUniqueNames ==
    passEnded =>
        \A i, j \in DOMAIN lastPass.snapshot :
            (/\ lastPass.snapshot[i].name = lastPass.snapshot[j].name
             /\ lastPass.snapshot[i].name \notin Overrides) => i = j

\* the operation each name is bound to: of the registry, and of a snapshot
bindingsOf(reg) == {<<e.name, e.service, e.operation>> : e \in reg}

candidatesOf(snapshot) ==
    {<<snapshot[i].name, snapshot[i].decisionServiceId, snapshot[i].operationId>> :
        i \in DOMAIN snapshot}

\* C21: startup and polling compute the same names, bound to the same
\* operations, from one remote state: when the remote runtime does not
\* change and all its calls succeed, the first pass after startup ends
\* without an error, its snapshot is what startup registered, and it adds,
\* removes and updates nothing.
C21_SameSnapshot ==
    (passEnded /\ quiet /\ stable = 1 /\ callsSucceed) =>
        /\ lastPass.cause = "none"
        /\ candidatesOf(lastPass.snapshot) = bindingsOf(registry)
        /\ operations(lastPass) = 0

\* C22: when a pass completes without raising, the names of the registry and
\* the names of the tracked list are exactly the names of the pass's
\* snapshot; the pass has removed the names that were registered and are
\* not in the snapshot, and added the names of the snapshot that were not
\* registered, and no other.
C22_PostPassAgreement ==
    [][lastEvent' = "passDone" =>
          LET before == {e.name : e \in registry}
              snapshot == namesOf(lastPass'.snapshot)
          IN  /\ {e.name : e \in registry'} = snapshot
              /\ namesOf(toolDefinitions') = snapshot
              /\ lastPass'.removed = Cardinality(before \ snapshot)
              /\ lastPass'.added = Cardinality(snapshot \ before)]_vars

\* a pass has kept one tool, removed one and added one
C22_Witness ==
    /\ lastEvent = "passDone"
    /\ lastPass.removed = 1
    /\ lastPass.added = 1
    /\ Cardinality(registry) = 2

\* the positions of a log that hold a call of one of the given kinds
callsOf(log, ops) == {i \in DOMAIN log : log[i].op \in ops}

\* C23: in every pass each removal comes before the first addition or
\* update, and the pass changes neither the registry nor the tracked list
\* before its snapshot is complete: while the pass is in flight they stay
\* as they are, and they change only in the step that ends the pass.
C23_PhaseOrdering ==
    /\ [](\A i \in callsOf(lastPass.log, {"remove"}) :
             \A j \in callsOf(lastPass.log, {"add", "update"}) : i < j)
    /\ [][(passes # <<>> /\ passes' # <<>>) =>
             UNCHANGED <<registry, toolDefinitions>>]_vars

\* a pass has removed a tool and then added and updated one
C23_Witness ==
    /\ lastEvent = "passDone"
    /\ callsOf(lastPass.log, {"remove"}) # {}
    /\ callsOf(lastPass.log, {"add"}) # {}
    /\ callsOf(lastPass.log, {"update"}) # {}

\* the names of a snapshot are names the allocator generated
generatedNames(snapshot) ==
    \A i \in DOMAIN snapshot : snapshot[i].name \notin (Overrides \ {NoOverride})

\* C24: a name is added only while it is not registered, and updated or
\* removed only while it is: no pass calls update or remove through a handle
\* whose entry is gone from the registry, and no pass calls registerTool for
\* a name that is registered (stated for the passes whose names are all
\* generated by the allocator).
C24_NameStateMachine ==
    (passEnded /\ generatedNames(lastPass.snapshot)) =>
        \A i \in DOMAIN lastPass.log : lastPass.log[i].ok

\* the registry entries a tracked definition's handle refers to
entriesOf(definition) == {e \in registry : e.handle = definition.registeredTool}

\* C25: whenever no pass is in flight (after startup, after a pass that
\* completed, after a pass that failed) the tracked list and the registry
\* hold the same names, every tracked definition holds the handle of exactly
\* one registry entry, which is the entry of its name, no two definitions
\* hold one handle, and so no definition holds the handle of a removed entry.
C25_TrackedMirrorsRegistry ==
    passes = <<>> =>
        /\ namesOf(toolDefinitions) = {e.name : e \in registry}
        /\ Len(toolDefinitions) = Cardinality(registry)
        /\ \A i \in DOMAIN toolDefinitions :
              /\ Cardinality(entriesOf(toolDefinitions[i])) = 1
              /\ \A e \in entriesOf(toolDefinitions[i]) : e.name = toolDefinitions[i].name
              /\ \A j \in DOMAIN toolDefinitions :
                    toolDefinitions[j].registeredTool = toolDefinitions[i].registeredTool
                        => j = i

\* a pass has removed a tool, added another and then failed on a name that
\* is registered
C25_Witness ==
    /\ lastEvent = "passFailed"
    /\ passes = <<>>
    /\ lastPass.removed >= 1
    /\ lastPass.added >= 1
    /\ registry # {}

\* the candidate of a name in a snapshot whose names are distinct
candidateOf(snapshot, name) == snapshot[CHOOSE i \in DOMAIN snapshot : snapshot[i].name = name]

distinctNames(snapshot) ==
    \A i, j \in DOMAIN snapshot : snapshot[i].name = snapshot[j].name => i = j

definitionOf(defs, name) == defs[CHOOSE i \in DOMAIN defs : defs[i].name = name]

\* the registered names whose candidate has another fingerprint than the
\* tracked one
changedNames(defs, snapshot) ==
    {n \in namesOf(defs) \cap namesOf(snapshot) :
        candidateOf(snapshot, n).inputSchemaHash # definitionOf(defs, n).inputSchemaHash}

\* C26: a completed pass updates in place every registered name whose
\* candidate fingerprint differs from the tracked one: the entry keeps its
\* handle and name and gets the candidate's title, schema and operation
\* binding, the tracked fingerprint becomes the candidate's, the name is
\* neither removed nor registered again (the pass removes and adds exactly
\* the names that left and joined the snapshot), and every other entry whose
\* name stays in the snapshot is left as it was (stated for snapshots with
\* distinct names).
C26_UpdateInPlace ==
    [][(lastEvent' = "passDone" /\ distinctNames(lastPass'.snapshot)) =>
          LET snapshot == lastPass'.snapshot
              changed == changedNames(toolDefinitions, snapshot)
          IN  /\ lastPass'.updated = Cardinality(changed)
              /\ lastPass'.removed = Cardinality(namesOf(toolDefinitions) \ namesOf(snapshot))
              /\ lastPass'.added = Cardinality(namesOf(snapshot) \ namesOf(toolDefinitions))
              /\ \A e \in registry : e.name \in namesOf(snapshot) =>
                    IF e.name \in changed
                    THEN LET c == candidateOf(snapshot, e.name)
                         IN  /\ [e EXCEPT !.title = c.title,
                                          !.schema = c.inputSchemaHash,
                                          !.service = c.decisionServiceId,
                                          !.operation = c.operationId] \in registry'
                             /\ definitionOf(toolDefinitions', e.name).inputSchemaHash
                                    = c.inputSchemaHash
                             /\ definitionOf(toolDefinitions', e.name).registeredTool
                                    = e.handle
                    ELSE e \in registry']_vars

\* a pass has updated one of two registered tools and has done nothing else
C26_Witness ==
    /\ lastEvent = "passDone"
    /\ distinctNames(lastPass.snapshot)
    /\ lastPass.log = <<[op |-> "update", ok |-> TRUE]>>
    /\ Cardinality(registry) = 2

\* C27: a pass leaves the flight only by ending, as completed or as failed,
\* and the in-flight flag is cleared in that step and in no other; when the
\* timer keeps firing and every remote call of a pass is answered or
\* rejected in the end, a pass in flight ends, the flag returns to idle and a
\* later tick starts a pass.
C27_PassTermination ==
    /\ [][(passes # <<>> /\ passes' = <<>>) => lastEvent' \in {"passDone", "passFailed"}]_vars
    /\ [][(isPolling /\ ~isPolling') => (passes # <<>> /\ passes' = <<>>)]_vars
    /\ isPolling ~> (passEnded /\ ~isPolling)
    /\ passEnded ~> (lastEvent = "tick" /\ passes = <<NewPass>>)

\* a pass has failed on a rejected descriptor fetch and the tick after it
\* has started the next pass
C27_Witness ==
    /\ lastEvent = "tick"
    /\ passes = <<NewPass>>
    /\ isPolling
    /\ \E s \in Services : remote[s].status = "throw"

\* the pass in flight awaits the descriptor of a service for which the
\* allocator is going to throw
conflictAhead ==
    /\ passes # <<>>
    /\ passes[1].pc = "fetch"
    /\ namingConflict(remote[Head(passes[1].ids)], Head(passes[1].ids), <<>>)

\* C28 (poll pass): when the allocator raises a naming conflict while the
\* snapshot of a pass is being built, the pass ends there as failed: it makes
\* no call on the registry, registry and tracked list stay as they were (no
\* candidate of any service is applied), and the rest of the snapshot is not
\* fetched.
C28_ConflictAbortsPass ==
    [][(conflictAhead /\ passes' # passes) =>
          /\ passes' = <<>>
          /\ lastEvent' = "passFailed"
          /\ lastPass'.cause = "naming"
          /\ lastPass'.log = <<>>
          /\ UNCHANGED <<registry, toolDefinitions>>]_vars

\* a pass has failed on a naming conflict while another service is deployed
\* whose tool is not registered
C28_Witness ==
    /\ lastEvent = "passFailed"
    /\ lastPass.cause = "naming"
    /\ \E s \in Services :
          /\ remote[s].status = "ok"
          /\ remote[s].desc.extra = <<>>
          /\ ~registeredFor(s)

\* C28 as stated, startup included: a naming conflict at startup as well
\* leaves no candidate of any service in the registry.
C28_ConflictAbortsSnapshot ==
    /\ C28_ConflictAbortsPass
    /\ [](lastEvent = "startupConflict" => registry = {})

\* the operation identifiers of the well-formed paths of a list, in order
RECURSIVE wellFormed(_)
wellFormed(ps) ==
    IF ps = <<>> THEN <<>>
    ELSE IF Head(ps).kind = "ok" THEN <<Head(ps).operationId>> \o wellFormed(Tail(ps))
    ELSE wellFormed(Tail(ps))

\* C29: translating a descriptor skips every declared path without a post
\* operation, without an operation identifier, without a request body or
\* with a request body that has no application/json content, and raises
\* nothing for it: the candidates are those of the well-formed paths, one
\* each, in the order of the descriptor.
C29_MalformedSkipped ==
    probe.fn = "processOpenAPIPaths" =>
        /\ probe.result.ok
        /\ [i \in DOMAIN probe.result.tools |-> probe.result.tools[i].operationId]
              = wellFormed(paths(probe.openapi))

configured == decisionServiceIds # <<>>

\* a pass has been started by this step
passStarted == Len(passes') > Len(passes)

firstIndex(list, x) == CHOOSE i \in DOMAIN list :
    list[i] = x /\ \A j \in DOMAIN list : list[j] = x => i <= j

\* C31: getDecisionServiceIds returns every decisionServiceId value of the
\* metadata list, each exactly once, in the order in which the values occur
\* first in the list.
C31_DedupFirstSeen ==
    probe.fn = "getDecisionServiceIds" =>
        /\ Range(probe.result) = Range(probe.metadata)
        /\ \A i, j \in DOMAIN probe.result :
              /\ probe.result[i] = probe.result[j] => i = j
              /\ i < j => firstIndex(probe.metadata, probe.result[i])
                              < firstIndex(probe.metadata, probe.result[j])

\* a list in which a value comes back after another one
C31_Witness ==
    /\ probe.fn = "getDecisionServiceIds"
    /\ probe.metadata = << <<"2">>, <<"1">>, <<"2">>, <<"3">> >>
    /\ probe.result = << <<"2">>, <<"1">>, <<"3">> >>

\* createMcpServer is still in its registration loop
registering == startup \in {"enumerate", "services"}

\* C32: no pass starts before the registration loop of createMcpServer has
\* finished: while the loop runs the timer is not set, no tick fires, no pass
\* is in flight and none has ended; so registry and tracked list are changed
\* by the loop only while no pass exists, and by a pass only after the loop.
C32_PollingAfterStartup ==
    /\ [](registering =>
             /\ ~timerActive
             /\ ~isPolling
             /\ passes = <<>>
             /\ lastEvent \notin {"tick", "passDone", "passFailed"})
    /\ [][(registering /\ <<registry, toolDefinitions>>' # <<registry, toolDefinitions>>) =>
             (passes = <<>> /\ passes' = <<>>)]_vars
    /\ [][(passes # <<>> /\ <<registry, toolDefinitions>>' # <<registry, toolDefinitions>>) =>
             (startup = "done" /\ startup' = "done")]_vars

\* the loop has registered the tools of two services and the first tick
\* after it has started a pass
C32_Witness ==
    /\ lastEvent = "tick"
    /\ passes = <<NewPass>>
    /\ startup = "done"
    /\ Cardinality(registry) = 2
    /\ Len(toolDefinitions) = 2

\* C33: the registry and the tracked list change only in a step of the
\* registration loop of createMcpServer and in the step that ends a pass; a
\* timer tick (skipped or not), a list-tools request and a call-tool request
\* leave both as they are.
C33_SoleMutator ==
    /\ [][<<registry, toolDefinitions>>' # <<registry, toolDefinitions>> =>
             (startup = "services" \/ lastEvent' \in {"passDone", "passFailed"})]_vars
    /\ [][lastEvent' \in {"tick", "listTools", "callTool"} =>
             UNCHANGED <<registry, toolDefinitions>>]_vars

\* a tool has been called while a pass is in flight
C33_Witness ==
    /\ lastEvent = "callTool"
    /\ response.kind = "call"
    /\ passes # <<>>
    /\ registry # {}

\* C34: a pass whose snapshot building fails, because getMetadata, a
\* descriptor fetch, the metadata lookup of an override name or the
\* allocator raises, makes no call on the registry: registry and tracked
\* list are after the pass what they were before it.
C34_FailedSnapshotNoMutation ==
    [][(lastEvent' = "passFailed"
            /\ lastPass'.cause \in {"enumerate", "fetch", "naming"}) =>
          /\ lastPass'.log = <<>>
          /\ UNCHANGED <<registry, toolDefinitions>>]_vars

\* a pass has fetched the descriptor of a registered service and has then
\* failed on the metadata lookup of the next one
C34_Witness ==
    /\ lastEvent = "passFailed"
    /\ lastPass.cause = "fetch"
    /\ remote[ServiceIds[2]] = LookupFailure
    /\ registeredFor(ServiceIds[1])
    /\ ~usesConfiguredIds(decisionServiceIds)

\* C35 (amended): once close has been called no pass starts any more, and
\* registry and tracked list are changed by nothing but the end of a pass
\* that was in flight when close was called; with no pass in flight they
\* stay as they are for good.
C35_NoMutationAfterClose ==
    /\ [][closeCalled => Len(passes') <= Len(passes)]_vars
    /\ [][(closeCalled /\ <<registry, toolDefinitions>>' # <<registry, toolDefinitions>>) =>
             (passes # <<>> /\ passes' = <<>> /\ lastEvent' \in {"passDone", "passFailed"})]_vars
    /\ [][(closeCalled /\ passes = <<>>) =>
             (passes' = <<>> /\ UNCHANGED <<registry, toolDefinitions>>)]_vars

\* close was called while a pass was in flight; the pass has ended after it
\* and has changed the registry
C35_Witness ==
    /\ closeCalled
    /\ lastEvent = "passDone"
    /\ lastPass.log # <<>>
    /\ passes = <<>>

\* C35 as stated: a pass that ends after close has been called, the pass in
\* flight at that moment included, makes no call on the registry.
C35_NoMutationByPassInFlight ==
    (closeCalled /\ passEnded) => lastPass.log = <<>>

\* C36: the in-flight guard is per server: a tick of this server is skipped
\* only when a pass of this server is in flight, so right after any tick of
\* this server (one that started a pass, or one that was skipped) a pass of
\* this server is in flight, whatever another server of the process does.
C36_GuardPerServer ==
    lastEvent = "tick" => passes # <<>>

\* C37: at every point of the initial registration between two services,
\* every name in the running name list is the name of a tool present in the
\* registry.
C37_NamesAreRegistered ==
    startup = "services" =>
        \A k \in DOMAIN toolNames : \E e \in registry : e.name = toolNames[k]
====
